---- MODULE Spec2Model ----
(***************************************************************************)
(* Model of the execution loop of the autonomous desktop agent             *)
(* (AutonomousAgent.run_task in main.py) together with the parts of        *)
(* capture_screen, _compare_screenshots and GeminiAgent.generate_plan that *)
(* decide its behaviour.  The display, the accessibility scan, the oracle, *)
(* the planner, the actuator and the operator are environment: their       *)
(* outcomes are drawn from small sets in the actions.                      *)
(***************************************************************************)
EXTENDS Integers, Sequences, FiniteSets, TLC

(* ---------------- program constants ---------------- *)
MAX_ITERATIONS == 15
max_subgoal_attempts == 5
CHANGE_THRESHOLD == 2
SCREENSHOT_PATH == "temp_screenshot.png"

(* ---------------- bounds of the model ---------------- *)
\* longest plan the planner's answer parses into
MaxPlanLen == 2
\* the records of self.history a specification follows
MaxHistory == 3
\* the nodes of an accessibility tree
MaxNodes == 3
\* the elements a visual detector reports in one scan
MaxDetections == 2
\* nodes of an accessibility tree with failing nodes
MaxFaultyNodes == 4
\* the records of self.history followed where the window of the prompt matters
MaxCarried == 6
\* the passes of a run in which the oracle clicks by element id
MaxClickPasses == 2

(* ---------------- values ---------------- *)
\* Python None for a path
NonePath == "None"
\* self.plan = None; the code tests the plan by truthiness, so None and the
\* empty list behave alike
NoPlan == << >>
\* no file on disk / no frame observed yet
NoFrame == << >>
\* frames are rows of 8-bit channel values
Frames == { <<0, 0>>, <<5, 5>>, <<6, 5>> }

\* a sub-goal string is modelled by a pair: the planner's answer it came from
\* and its number, or the request text that generate_plan fell back to
UserTask == <<"task", 0>>
RemainingTask(completed_goals) == <<"remaining", Len(completed_goals)>>
PlanOf(n) == [i \in 1..n |-> <<"item", i>>]
ParsedPlans == { PlanOf(n) : n \in 1..MaxPlanLen }

\* what one call of generate_plan meets: a numbered list ("items"), an answer
\* without numbered lines ("noitems"), an exception inside its try block
\* ("apierror"), an exception raised again inside its handler ("raise", the
\* logging of the error fails), or a KeyboardInterrupt ("interrupt")
PlannerOutcomes ==
    { [kind |-> "items", plan |-> p] : p \in ParsedPlans }
    \cup { [kind |-> k, plan |-> NoPlan] : k \in {"noitems", "apierror", "raise", "interrupt"} }

\* oracle texts are rows of fragments; the empty row is the empty string
Texts == { << >>, <<"ok">>, <<"SUB-GOAL COMPLETE">>, <<"subgoal complete">>,
           <<"SUB-GOAL IMPOSSIBLE">>, <<"Done">>,
           <<"SUB-GOAL COMPLETE", "Done">>,
           <<"SUB-GOAL COMPLETE", "SUB-GOAL IMPOSSIBLE">> }
\* ordered action batches returned by the oracle
Batches == { << >>, <<"click">>, <<"click", "type">>, <<"type", "click">> }

NoSignature == <<"None", << >> >>

(* ---------------- pure functions ---------------- *)
\* str.lower() on a fragment
Lower(s) ==
    CASE s = "SUB-GOAL COMPLETE" -> "sub-goal complete"
      [] s = "SUB-GOAL IMPOSSIBLE" -> "sub-goal impossible"
      [] s = "Done" -> "done"
      [] OTHER -> s

\* phrase in text.lower()
Contains(text, phrase) == \E i \in 1..Len(text) : Lower(text[i]) = phrase

HasCompleteMarker(text) ==
    Contains(text, "sub-goal complete") \/ Contains(text, "subgoal complete")

HasImpossibleMarker(text) ==
    Contains(text, "sub-goal impossible") \/ Contains(text, "subgoal impossible")

completion_phrases ==
    {"task complete", "finished", "done", "successfully completed", "accomplished"}

HasCompletionPhrase(text) == \E p \in completion_phrases : Contains(text, p)

Abs(n) == IF n < 0 THEN -n ELSE n

RECURSIVE SumAbsDiff(_, _, _)
SumAbsDiff(a, b, i) ==
    IF i > Len(a) THEN 0 ELSE Abs(a[i] - b[i]) + SumAbsDiff(a, b, i + 1)

\* the comparison with >= in the place of >
DiffReachesThreshold(cur, prev) ==
    SumAbsDiff(cur, prev, 1) * 100 >= CHANGE_THRESHOLD * 255 * Len(cur)

\* diff_percentage > CHANGE_THRESHOLD, with
\* diff_percentage = (sum(diff) / diff.size) / 255.0 * 100
DiffExceedsThreshold(cur, prev) ==
    SumAbsDiff(cur, prev, 1) * 100 > CHANGE_THRESHOLD * 255 * Len(cur)

\* the files of a disk whose one file, SCREENSHOT_PATH, holds content (the
\* agent writes no other file); a disk maps the paths of its files to frames
ScreenshotOnly(content) == [path \in {SCREENSHOT_PATH} |-> content]

\* the content of the file at a path, NoFrame when there is no such file
ReadFile(path, disk) == IF path \in DOMAIN disk THEN disk[path] ELSE NoFrame

\* _compare_screenshots(current_path, previous_path): both paths are read
\* from the disk as it is at the time of the call
CompareScreenshots(current_path, previous_path, disk, cmp_fails) ==
    IF previous_path = NonePath \/ ReadFile(previous_path, disk) = NoFrame THEN TRUE
    ELSE IF cmp_fails \/ ReadFile(current_path, disk) = NoFrame THEN TRUE
    ELSE DiffExceedsThreshold(ReadFile(current_path, disk), ReadFile(previous_path, disk))

\* the list generate_plan returns when it returns
GeneratePlan(po, user_request) ==
    IF po.kind = "items" THEN po.plan ELSE <<user_request>>

\* generate_plan lets an exception out
PlanRaises(po) == po.kind = "raise"
PlanInterrupted(po) == po.kind = "interrupt"

\* json.dumps(function_calls, sort_keys=True): equal batches, and only equal
\* batches, give equal signatures
ActionSignature(function_calls) == <<"sig", function_calls>>

\* The calls an oracle response can carry, named by what execute_function_call
\* meets: "click" and "type" are well-formed click_element and type_text calls
\* that reach the controller, "click_oob" is a click_element outside the screen,
\* "click_noargs" a click_element without its "x" argument, "click_bad_id" a
\* click_element_by_id whose element_id is no integer, "unknown" a name that
\* execute_function_call has no branch for.
Calls == {"click", "type", "click_oob", "click_noargs", "click_bad_id", "unknown"}

\* what the controller does with a call that reaches it: it succeeds ("done"),
\* pyautogui fails and the controller raises DesktopControllerError ("error"),
\* or pyautogui raises FailSafeException, which the controller raises again
\* unwrapped (controller.py, "except pyautogui.FailSafeException: raise")
ActuatorOutcomes == {"done", "error", "failsafe"}

NoException == "none"

\* lines 418-421: the handler of execute_function_call turns
\* DesktopControllerError and its subclasses into a result string; any other
\* exception leaves the method
ExceptDesktopControllerError(kind) ==
    IF kind \in {"DesktopControllerError", "CoordinateOutOfBoundsError"}
    THEN [raised |-> NoException, result |-> "Failed to execute"]
    ELSE [raised |-> kind, result |-> "none"]

\* click_element_by_id calls with an integer element_id, 1 or 3
IdCalls == {"click_id_1", "click_id_3"}
ElementId(call) == IF call = "click_id_1" THEN 1 ELSE 3

\* the click made whatever the catalogue holds
ClickElementByIdUnchecked(call, act, elements) ==
    [raised |-> NoException, result |-> "Left-clicked element"]

\* lines 313-376, the element_id being an integer: the id is looked up in
\* self.current_elements (elements: the ids of the catalogue) and the centre
\* of the element is clicked with scale=False
ClickElementById(call, act, elements) ==
    IF elements = << >>
    THEN [raised |-> NoException, result |-> "No UI elements were detected"]
    ELSE IF \A i \in 1..Len(elements) : elements[i] # ElementId(call)
         THEN [raised |-> NoException, result |-> "Element ID not found"]
    ELSE IF act = "error" THEN ExceptDesktopControllerError("DesktopControllerError")
    ELSE IF act = "failsafe" THEN ExceptDesktopControllerError("FailSafeException")
    ELSE [raised |-> NoException, result |-> "Left-clicked element"]

\* execute_function_call (lines 248-421): the result string of one call, or the
\* exception that leaves the method; elements is self.current_elements
ExecuteFunctionCall(call, act, elements) ==
    IF call \in IdCalls THEN ClickElementById(call, act, elements)
    ELSE IF call = "unknown" THEN [raised |-> NoException, result |-> "Unknown function"]
    ELSE IF call = "click_bad_id"
         THEN [raised |-> NoException, result |-> "Invalid element_id"]
    ELSE IF call = "click_noargs" THEN ExceptDesktopControllerError("KeyError")
    ELSE IF call = "click_oob"
         THEN ExceptDesktopControllerError("CoordinateOutOfBoundsError")
    ELSE IF act = "error" THEN ExceptDesktopControllerError("DesktopControllerError")
    ELSE IF act = "failsafe" THEN ExceptDesktopControllerError("FailSafeException")
    ELSE [raised |-> NoException,
          result |-> IF call = "click" THEN "Left-clicked" ELSE "Typed"]

\* lines 659-670 of run_task: the dispatch loop from call i on; results holds
\* execution_results so far.  An exception that leaves execute_function_call
\* leaves the loop as well.
RECURSIVE DispatchFrom(_, _, _, _, _)
DispatchFrom(function_calls, acts, elements, i, results) ==
    IF i > Len(function_calls)
    THEN [raised |-> NoException, results |-> results]
    ELSE LET r == ExecuteFunctionCall(function_calls[i], acts[i], elements) IN
         IF r.raised # NoException
         THEN [raised |-> r.raised, results |-> results]
         ELSE DispatchFrom(function_calls, acts, elements, i + 1,
                           Append(results, r.result))

Dispatch(function_calls, acts, elements) ==
    DispatchFrom(function_calls, acts, elements, 1, << >>)

\* the loop guard with the bound off by one
LoopConditionOffByOne(it, tc) == it <= MAX_ITERATIONS /\ ~tc

\* the guard of the while loop
LoopCondition(it, tc) == it < MAX_ITERATIONS /\ ~tc

\* the code after the loop
CompletionStatus(tc, it) ==
    IF tc THEN "Completed"
    ELSE IF it >= MAX_ITERATIONS THEN "Exhausted"
    ELSE "Stopped"

\* run_task's return value
ReturnValue(oc) == oc = "Completed"

\* the sub-goal guard with the index bound off by one
ActiveSubgoalOffByOne(p, i) == p # NoPlan /\ i <= Len(p)

\* self.plan and self.current_subgoal_index < len(self.plan)
ActiveSubgoal(p, i) == p # NoPlan /\ i < Len(p)

(* ---------------- state ---------------- *)
VARIABLES
    world,                     \* what the environment of the agent can do
    pc,                        \* position of the control thread
    outcome,                   \* how the last run_task call ended
    error,                     \* the exception that unwound the loop (lines 700-722)
    iteration,                 \* run_task's local iteration
    task_complete,             \* run_task's local task_complete
    oracle_calls,              \* analyze_and_act calls made by the current run
    plan,                      \* self.plan
    current_subgoal_index,     \* self.current_subgoal_index
    subgoal_attempts,          \* self.subgoal_attempts
    stuck_count,               \* self.stuck_count
    last_action_signature,     \* self.last_action_signature
    previous_screenshot_path,  \* self.previous_screenshot_path
    current_elements,          \* self.current_elements (the ids of the catalogue)
    disk,                      \* the content of the file SCREENSHOT_PATH
    frame,                     \* the frame captured in the current pass
    previous_frame,            \* the frame captured in the pass before
    state_changed,             \* run_task's local state_changed
    correction_hint,           \* the context of this pass carries the hint
    subgoal_signal,            \* branch of the sub-goal signal check this pass took
    replan_outcome,            \* what the re-plan request of this pass met
    repeated_action,           \* this pass found its batch repeated (line 653)
    issued_calls,              \* run_task's local function_calls of this pass
    execution_results,         \* run_task's local execution_results of this pass
    previous_calls,            \* the function_calls of the pass before (observed)
    history,                   \* self.history (observed)
    ui_tree,                   \* the accessibility tree of the foreground window
    scanner_config,            \* UIScanner's max_depth and the include_offscreen argument
    detections,                \* what VisualDetector.detect_elements returns
    iou_threshold,             \* HybridScanner.iou_threshold
    scans_done,                \* the scanner operations that have returned
    api_elements,              \* the result of UIScanner.scan_active_window
    merged,                    \* the result of HybridScanner.scan
    window,                    \* the foreground window and what reading it meets
    search_timeout,            \* uiautomation's process-wide search timeout
    scan_raised,               \* the exception the last scan call raised
    configured_max_depth,      \* the max_depth UIScanner was constructed with
    previous_elements,         \* the catalogue of the pass before (observed)
    chat_history,              \* the records the oracle of this pass was handed
    compare_call,              \* a call of _compare_screenshots and its result
    controller,                \* the fields of the DesktopController
    desktop                    \* the pointer and what the last controller call did

vars == << world, pc, outcome, error, iteration, task_complete, oracle_calls, plan,
           current_subgoal_index, subgoal_attempts, stuck_count,
           last_action_signature, previous_screenshot_path, current_elements,
           disk, frame, previous_frame, state_changed, correction_hint,
           subgoal_signal, replan_outcome, repeated_action, issued_calls,
           execution_results, previous_calls, history, ui_tree, scanner_config,
           detections, iou_threshold, scans_done, api_elements, merged, window,
           search_timeout, scan_raised, configured_max_depth, previous_elements,
           chat_history, compare_call, controller, desktop >>

\* the state of the scanner (src/vision/scanner.py)
scanner_vars == << ui_tree, scanner_config, detections, iou_threshold, scans_done,
                   api_elements, merged, window, search_timeout, scan_raised,
                   configured_max_depth >>

\* the components that are exercised on their own: _compare_screenshots
\* (main.py) and the DesktopController (src/action/controller.py)
component_vars == << compare_call, controller, desktop >>

\* the state of the agent (main.py)
agent_vars == << previous_elements, chat_history, world, pc, outcome, error, iteration, task_complete, oracle_calls,
                 plan, current_subgoal_index, subgoal_attempts, stuck_count,
                 last_action_signature, previous_screenshot_path, current_elements,
                 disk, frame, previous_frame, state_changed, correction_hint,
                 subgoal_signal, replan_outcome, repeated_action, issued_calls,
                 execution_results, previous_calls, history >>

\* the records of the history analyze_and_act puts into the prompt
\* (brain.py line 614): chat_history[-5:]
HISTORY_WINDOW == 5

\* only the last record handed on
ChatHistoryLastOnly(h) == IF h = << >> THEN << >> ELSE <<h[Len(h)]>>

ChatHistory(h) ==
    IF Len(h) <= HISTORY_WINDOW THEN h
    ELSE SubSeq(h, Len(h) - HISTORY_WINDOW + 1, Len(h))

\* AutonomousAgent.__init__
InitAgent ==
    /\ pc = "idle"
    /\ outcome = "none"
    /\ error = "none"
    /\ iteration = 0
    /\ task_complete = FALSE
    /\ oracle_calls = 0
    /\ plan = NoPlan
    /\ current_subgoal_index = 0
    /\ subgoal_attempts = 0
    /\ stuck_count = 0
    /\ last_action_signature = NoSignature
    /\ previous_screenshot_path = NonePath
    /\ current_elements = << >>
    /\ disk = NoFrame
    /\ frame = NoFrame
    /\ previous_frame = NoFrame
    /\ state_changed = FALSE
    /\ correction_hint = FALSE
    /\ subgoal_signal = "none"
    /\ replan_outcome = "none"
    /\ repeated_action = FALSE
    /\ issued_calls = << >>
    /\ execution_results = << >>
    /\ previous_calls = << >>
    /\ history = << >>
    /\ previous_elements = << >>
    /\ chat_history = << >>

(* ---------------- the sub-goal signal check (Step C) ---------------- *)
\* The plan state the check works on:
\*   [plan, idx, attempts, stuck, tc, signal, replan]

\* the advance without the reset of the stuck counter
SubgoalCompletedKeepsStuck(ps) ==
    [ps EXCEPT !.idx = ps.idx + 1,
               !.attempts = 0,
               !.tc = (ps.idx + 1 >= Len(ps.plan)),
               !.signal = "complete"]

\* "sub-goal complete": move to the next sub-goal
SubgoalCompleted(ps) ==
    [ps EXCEPT !.idx = ps.idx + 1,
               !.attempts = 0,
               !.stuck = 0,
               !.tc = (ps.idx + 1 >= Len(ps.plan)),
               !.signal = "complete"]

\* "sub-goal impossible": re-generate the plan from the current state
SubgoalImpossible(ps, po) ==
    LET completed_goals == SubSeq(ps.plan, 1, ps.idx)
        new_plan == GeneratePlan(po, RemainingTask(completed_goals))
    IN  IF PlanRaises(po) \/ PlanInterrupted(po)
        THEN [ps EXCEPT !.signal = "impossible", !.replan = po.kind]
        ELSE IF new_plan # << >>
        THEN [ps EXCEPT !.plan = new_plan, !.idx = 0, !.attempts = 0, !.stuck = 0,
                        !.signal = "impossible", !.replan = po.kind]
        ELSE [ps EXCEPT !.signal = "impossible", !.replan = po.kind]

\* the forced re-plan without the reset of the attempts
ForcedReplanKeepsAttempts(ps, po) ==
    LET completed_goals == SubSeq(ps.plan, 1, ps.idx)
        new_plan == GeneratePlan(po, RemainingTask(completed_goals))
    IN  IF PlanInterrupted(po)
        THEN [ps EXCEPT !.replan = po.kind]
        ELSE IF PlanRaises(po)
        THEN [ps EXCEPT !.idx = ps.idx + 1, !.replan = po.kind]
        ELSE IF new_plan # << >>
        THEN [ps EXCEPT !.plan = new_plan, !.idx = 0, !.replan = po.kind]
        ELSE [ps EXCEPT !.replan = po.kind]

\* the forced re-plan once the attempts reach the maximum
ForcedReplan(ps, po) ==
    LET completed_goals == SubSeq(ps.plan, 1, ps.idx)
        new_plan == GeneratePlan(po, RemainingTask(completed_goals))
    IN  IF PlanInterrupted(po)
        THEN [ps EXCEPT !.replan = po.kind]
        ELSE IF PlanRaises(po)
        THEN [ps EXCEPT !.idx = ps.idx + 1, !.attempts = 0, !.replan = po.kind]
        ELSE IF new_plan # << >>
        THEN [ps EXCEPT !.plan = new_plan, !.idx = 0, !.attempts = 0,
                        !.replan = po.kind]
        ELSE [ps EXCEPT !.replan = po.kind]

\* neither marker: track the attempts on the current sub-goal
TrackAttempts(ps, po) ==
    LET counted == [ps EXCEPT !.attempts = ps.attempts + 1, !.signal = "attempt"]
    IN  IF counted.attempts >= max_subgoal_attempts
        THEN ForcedReplan(counted, po)
        ELSE counted

\* lines 555-644 of run_task
CheckSubgoalSignals(ps, text, po) ==
    IF text # << >>
    THEN IF ActiveSubgoal(ps.plan, ps.idx)
         THEN IF HasCompleteMarker(text) THEN SubgoalCompleted(ps)
              ELSE IF HasImpossibleMarker(text) THEN SubgoalImpossible(ps, po)
              ELSE TrackAttempts(ps, po)
         ELSE [ps EXCEPT !.signal = "inactive"]
    ELSE [ps EXCEPT !.signal = IF ActiveSubgoal(ps.plan, ps.idx) THEN "notext" ELSE "inactive"]

\* the planner is called in this pass
PlannerCalled(ps, text) ==
    /\ text # << >>
    /\ ActiveSubgoal(ps.plan, ps.idx)
    /\ ~HasCompleteMarker(text)
    /\ \/ HasImpossibleMarker(text)
       \/ ps.attempts + 1 >= max_subgoal_attempts

(* ---------------- the repeated-action check (Step D) ---------------- *)
\* line 647 and 653: a non-empty batch with the signature of the last one
RepeatedBatch(function_calls, last_sig, it) ==
    function_calls # << >> /\ ActionSignature(function_calls) = last_sig /\ it > 1

\* lines 651-657 of run_task: the stuck counter after the check
StuckAfterBatch(stuck, function_calls, last_sig, it) ==
    IF RepeatedBatch(function_calls, last_sig, it) THEN stuck + 1 ELSE stuck

\* lines 651-657 of run_task: the signature kept for the next pass
SignatureAfterBatch(function_calls, last_sig, it) ==
    IF function_calls # << >> /\ ~RepeatedBatch(function_calls, last_sig, it)
    THEN ActionSignature(function_calls)
    ELSE last_sig

\* lines 659-698 of run_task: how the pass ends.  env is what the pass meets
\* after the signal check: for a batch, what the controller does with each call
\* (a sequence of ActuatorOutcomes); without a batch, the operator's answer to
\* "Continue?" ("y", "n", or "eof" when input() raises EOFError)
PassEnding(function_calls, text, it, env, elements) ==
    IF function_calls # << >>
    THEN IF Dispatch(function_calls, env, elements).raised # NoException
         THEN "abort" ELSE "continue"
    ELSE IF HasCompletionPhrase(text) THEN "break"
    ELSE IF it > 3
         THEN IF env = "y" THEN "continue"
              ELSE IF env = "eof" THEN "abort"
              ELSE "break"
         ELSE "continue"

\* lines 718-722: the exception that ends the pass when PassEnding is "abort"
PassException(function_calls, env, elements) ==
    IF function_calls # << >> THEN Dispatch(function_calls, env, elements).raised
    ELSE "EOFError"

\* line 688-690: a completion phrase in a response without actions
CompleteAfterBatch(tc, function_calls, text) ==
    IF function_calls = << >> /\ HasCompletionPhrase(text) THEN TRUE ELSE tc

\* the outcomes that can follow the signal check
EnvOutcomes(function_calls, text, it, actuator) ==
    IF function_calls # << >> THEN [1..Len(function_calls) -> actuator]
    ELSE IF HasCompletionPhrase(text) THEN {"ok"}
    ELSE IF it > 3 THEN {"y", "n", "eof"}
    ELSE {"ok"}

(* ---------------- the stuck check (Step B) ---------------- *)
\* lines 502-521 of run_task
StuckAfterCompare(stuck, changed, it) ==
    IF ~changed /\ it > 1 THEN stuck + 1 ELSE 0

\* the hint given from the first stuck pass on
HintAtFirstStuckPass(stuck, changed, it) ==
    ~changed /\ it > 1 /\ stuck + 1 >= 1

\* lines 501-514 of run_task: the hint is put into the context
HintAfterCompare(stuck, changed, it) ==
    ~changed /\ it > 1 /\ stuck + 1 >= 2

(* ---------------- actions ---------------- *)
\* lines 673-679 of run_task: the record a pass appends to self.history
HistoryRecord(it, screenshot_path, text, function_calls, results) ==
    [iteration |-> it, screenshot |-> screenshot_path, ai_response |-> text,
     function_calls |-> function_calls, execution_results |-> results]

NoPlannerCall == [kind |-> "none", plan |-> NoPlan]

\* run_task, lines 438-471: the optional planning step.  A KeyboardInterrupt
\* here leaves run_task and ends the program, so it is no outcome of the model.
StartTask ==
    /\ pc = "idle"
    /\ \E is_complex_task \in world.complex :
       \E po \in IF is_complex_task
                 THEN {x \in world.planner : ~PlanInterrupted(x)}
                 ELSE {NoPlannerCall} :
          LET new_plan == GeneratePlan(po, UserTask) IN
          /\ plan' = IF is_complex_task /\ ~PlanRaises(po) /\ Len(new_plan) > 1
                     THEN new_plan ELSE NoPlan
          /\ current_subgoal_index' =
                IF is_complex_task /\ ~PlanRaises(po) THEN 0 ELSE current_subgoal_index
          /\ subgoal_attempts' =
                IF is_complex_task /\ ~PlanRaises(po) THEN 0 ELSE subgoal_attempts
    /\ outcome' = "none"
    /\ error' = "none"
    /\ iteration' = 0
    /\ task_complete' = FALSE
    /\ oracle_calls' = 0
    /\ frame' = NoFrame
    /\ previous_frame' = NoFrame
    /\ subgoal_signal' = "none"
    /\ replan_outcome' = "none"
    /\ repeated_action' = FALSE
    /\ issued_calls' = << >>
    /\ execution_results' = << >>
    /\ previous_calls' = << >>
    /\ pc' = "while"
    /\ UNCHANGED << world, scanner_vars, component_vars, previous_elements, chat_history, history, stuck_count, last_action_signature,
                    previous_screenshot_path, current_elements, disk,
                    state_changed, correction_hint >>

\* line 473-474: the loop guard holds, a pass begins
WhileEnter ==
    /\ pc = "while"
    /\ LoopCondition(iteration, task_complete)
    /\ iteration' = iteration + 1
    /\ subgoal_signal' = "none"
    /\ replan_outcome' = "none"
    /\ repeated_action' = FALSE
    /\ issued_calls' = << >>
    /\ execution_results' = << >>
    /\ previous_calls' = IF world.observe THEN issued_calls ELSE previous_calls
    /\ pc' = "capture"
    /\ chat_history' = << >>
    /\ UNCHANGED << world, scanner_vars, component_vars, previous_elements, history, outcome, error, task_complete, oracle_calls, plan,
                    current_subgoal_index, subgoal_attempts, stuck_count,
                    last_action_signature, previous_screenshot_path,
                    current_elements, disk, frame, previous_frame, state_changed,
                    correction_hint >>

\* line 473 and 724-740: the loop guard fails, run_task returns
WhileExit ==
    /\ pc = "while"
    /\ ~LoopCondition(iteration, task_complete)
    /\ outcome' = CompletionStatus(task_complete, iteration)
    /\ pc' = "idle"
    /\ UNCHANGED << world, scanner_vars, component_vars, previous_elements, chat_history, history, previous_calls, issued_calls, execution_results, error, iteration, task_complete, oracle_calls, plan,
                    current_subgoal_index, subgoal_attempts, stuck_count,
                    last_action_signature, previous_screenshot_path,
                    current_elements, disk, frame, previous_frame, state_changed,
                    correction_hint, subgoal_signal, replan_outcome, repeated_action >>

\* capture_screen (lines 134-199) and lines 482-485 of run_task.
\* scan: "elements" (a non-empty catalogue, overlay drawn and saved), "empty"
\* (nothing found, grid saved), "scanfail" (the scanner raises, grid saved),
\* "overlayfail" (a non-empty catalogue, but drawing or saving the overlay
\* raises: nothing is saved)
CaptureScreen ==
    /\ pc = "capture"
    /\ \E f \in world.frames, scan \in world.scans :
          /\ disk' = IF scan = "overlayfail" THEN disk ELSE f
          /\ current_elements' =
                IF scan \in {"elements", "overlayfail"} THEN <<1, 2>>
                ELSE IF scan = "many" THEN <<1, 2, 3>>
                ELSE << >>
          /\ frame' = f
    /\ previous_frame' = frame
    /\ pc' = "compare"
    /\ previous_elements' = IF world.observe THEN current_elements ELSE previous_elements
    /\ UNCHANGED << world, scanner_vars, component_vars, chat_history, history, previous_calls, issued_calls, execution_results, outcome, error, iteration, task_complete, oracle_calls, plan,
                    current_subgoal_index, subgoal_attempts, stuck_count,
                    last_action_signature, previous_screenshot_path,
                    state_changed, correction_hint, subgoal_signal, replan_outcome, repeated_action >>

\* how an exception leaves the try block: run_task returns False
Unwound(kind) ==
    /\ outcome' = "Aborted"
    /\ error' = kind
    /\ pc' = "idle"

\* lines 197-199 and 700-703: the capture raises ScreenCaptureError
CaptureFails ==
    /\ pc = "capture"
    /\ Unwound("ScreenCaptureError")
    /\ UNCHANGED << world, scanner_vars, component_vars, previous_elements, chat_history, history, previous_calls, issued_calls, execution_results, iteration, task_complete, oracle_calls, plan,
                    current_subgoal_index, subgoal_attempts, stuck_count,
                    last_action_signature, previous_screenshot_path,
                    current_elements, disk, frame, previous_frame, state_changed,
                    correction_hint, subgoal_signal, replan_outcome, repeated_action >>

\* lines 705-712: analyze_and_act raises GeminiAgentError
OracleFails ==
    /\ pc = "decide"
    /\ oracle_calls' = oracle_calls + 1
    /\ Unwound("GeminiAgentError")
    /\ chat_history' = IF world.observe THEN ChatHistory(history) ELSE chat_history
    /\ UNCHANGED << world, scanner_vars, component_vars, previous_elements, history, previous_calls, issued_calls, execution_results, iteration, task_complete, plan,
                    current_subgoal_index, subgoal_attempts, stuck_count,
                    last_action_signature, previous_screenshot_path,
                    current_elements, disk, frame, previous_frame, state_changed,
                    correction_hint, subgoal_signal, replan_outcome, repeated_action >>

\* lines 714-716: the operator interrupts the run between two steps of a pass
Interrupt ==
    /\ pc \in {"capture", "compare", "decide"}
    /\ Unwound("KeyboardInterrupt")
    /\ UNCHANGED << world, scanner_vars, component_vars, previous_elements, chat_history, history, previous_calls, issued_calls, execution_results, iteration, task_complete, oracle_calls, plan,
                    current_subgoal_index, subgoal_attempts, stuck_count,
                    last_action_signature, previous_screenshot_path,
                    current_elements, disk, frame, previous_frame, state_changed,
                    correction_hint, subgoal_signal, replan_outcome, repeated_action >>

\* lines 497-541 of run_task: the stuck check against the previous screenshot
CompareStep ==
    /\ pc = "compare"
    /\ \E cmp_fails \in world.cmp_fails :
          LET changed == CompareScreenshots(SCREENSHOT_PATH, previous_screenshot_path,
                                            ScreenshotOnly(disk), cmp_fails) IN
          /\ state_changed' = changed
          /\ stuck_count' = StuckAfterCompare(stuck_count, changed, iteration)
          /\ correction_hint' = HintAfterCompare(stuck_count, changed, iteration)
    /\ previous_screenshot_path' = SCREENSHOT_PATH
    /\ pc' = "decide"
    /\ UNCHANGED << world, scanner_vars, component_vars, previous_elements, chat_history, history, previous_calls, issued_calls, execution_results, outcome, error, iteration, task_complete, oracle_calls, plan,
                    current_subgoal_index, subgoal_attempts, last_action_signature,
                    current_elements, disk, frame, previous_frame, subgoal_signal,
                    replan_outcome, repeated_action >>

\* lines 543-698 of run_task: the oracle answers with text and function_calls,
\* the sub-goal signals are checked, the batch is dispatched
Respond(text, function_calls, po, env) ==
    LET ps0 == [plan |-> plan, idx |-> current_subgoal_index,
                attempts |-> subgoal_attempts, stuck |-> stuck_count,
                tc |-> task_complete, signal |-> "none", replan |-> "none"]
        ps1 == CheckSubgoalSignals(ps0, text, po)
        interrupted == PlannerCalled(ps0, text) /\ PlanInterrupted(po)
        ending == IF interrupted THEN "abort"
                  ELSE PassEnding(function_calls, text, iteration, env, current_elements)
        tc1 == IF interrupted THEN ps1.tc
               ELSE CompleteAfterBatch(ps1.tc, function_calls, text)
        dispatched == function_calls # << >> /\ ~interrupted
    IN  /\ oracle_calls' = oracle_calls + 1
        /\ issued_calls' = function_calls
        /\ execution_results' =
              IF dispatched THEN Dispatch(function_calls, env, current_elements).results
              ELSE << >>
        /\ history' =
              IF world.observe /\ dispatched /\ ending # "abort"
              THEN Append(history,
                          HistoryRecord(iteration, SCREENSHOT_PATH, text, function_calls,
                                        Dispatch(function_calls, env,
                                                 current_elements).results))
              ELSE history
        /\ plan' = ps1.plan
        /\ current_subgoal_index' = ps1.idx
        /\ subgoal_attempts' = ps1.attempts
        /\ subgoal_signal' = ps1.signal
        /\ replan_outcome' = ps1.replan
        /\ repeated_action' =
              (~interrupted /\ RepeatedBatch(function_calls, last_action_signature,
                                             iteration))
        /\ stuck_count' = IF interrupted THEN ps1.stuck
                          ELSE StuckAfterBatch(ps1.stuck, function_calls,
                                               last_action_signature, iteration)
        /\ last_action_signature' =
              IF interrupted THEN last_action_signature
              ELSE SignatureAfterBatch(function_calls, last_action_signature, iteration)
        /\ task_complete' = tc1
        /\ pc' = IF ending = "continue" THEN "while" ELSE "idle"
        /\ outcome' = IF ending = "abort" THEN "Aborted"
                      ELSE IF ending = "break" THEN CompletionStatus(tc1, iteration)
                      ELSE outcome
        /\ error' = IF interrupted THEN "KeyboardInterrupt"
                    ELSE IF ending = "abort"
                    THEN PassException(function_calls, env, current_elements)
                    ELSE error
        /\ chat_history' = IF world.observe THEN ChatHistory(history) ELSE chat_history
        /\ UNCHANGED << world, scanner_vars, component_vars, previous_elements, previous_calls, iteration, previous_screenshot_path, current_elements,
                        disk, frame, previous_frame, state_changed, correction_hint >>

\* the batches the oracle can answer with.  Where the history is observed the
\* oracle issues actions in the first MaxHistory passes of a run and while the
\* history holds fewer than world.cap records.
OfferedBatches ==
    IF world.observe /\ (Len(history) >= world.cap \/ iteration > world.cap)
    THEN { << >> }
    ELSE world.batches

\* lines 543-698 of run_task, for every answer of the oracle and of the
\* environment of the pass
DecideStep ==
    /\ pc = "decide"
    /\ \E text \in world.texts, function_calls \in OfferedBatches :
       \E po \in IF PlannerCalled([plan |-> plan, idx |-> current_subgoal_index,
                                   attempts |-> subgoal_attempts], text)
                 THEN world.planner ELSE {NoPlannerCall} :
       \E env \in EnvOutcomes(function_calls, text, iteration, world.actuator) :
          Respond(text, function_calls, po, env)

Next ==
    \/ StartTask
    \/ WhileEnter
    \/ WhileExit
    \/ CaptureScreen
    \/ CompareStep
    \/ DecideStep
    \/ CaptureFails
    \/ OracleFails
    \/ Interrupt

(* ---------------- the scanner (src/vision/scanner.py) ---------------- *)
\* Rectangles are <<x, y, width, height>>.  A node of the accessibility tree is
\* [kind, enabled, rect]: its ControlType, IsEnabled and BoundingRectangle.  A
\* tree is [nodes, parent, broken, unreadable]: broken holds the nodes whose
\* GetChildren() raises, unreadable the nodes whose properties raise when read.

\* part of UIScanner.CLICKABLE_TYPES
CLICKABLE_TYPES == {"ButtonControl", "EditControl"}

min_visible_area == 25

\* the nodes the trees are built from: a button that qualifies, a container, a
\* disabled button, a field of width 0, a field of area 20, a button to the
\* right of a window at <<0, 0, 10, 5>>, a button of area 25 and a field that
\* overlaps the first button by a third
NodeProfiles ==
    { [kind |-> "ButtonControl", enabled |-> TRUE,  rect |-> <<0, 0, 10, 5>>],
      [kind |-> "PaneControl",   enabled |-> TRUE,  rect |-> <<0, 0, 10, 5>>],
      [kind |-> "ButtonControl", enabled |-> FALSE, rect |-> <<0, 0, 10, 5>>],
      [kind |-> "EditControl",   enabled |-> TRUE,  rect |-> <<0, 0, 0, 5>>],
      [kind |-> "EditControl",   enabled |-> TRUE,  rect |-> <<2, 0, 4, 5>>],
      [kind |-> "ButtonControl", enabled |-> TRUE,  rect |-> <<20, 0, 10, 5>>],
      [kind |-> "ButtonControl", enabled |-> TRUE,  rect |-> <<0, 0, 5, 5>>],
      [kind |-> "EditControl",   enabled |-> TRUE,  rect |-> <<5, 0, 10, 5>>] }

\* the nodes of the trees the merge is studied on
MergeProfiles ==
    { n \in NodeProfiles :
        n.enabled /\ n.rect \in { <<0, 0, 10, 5>>, <<5, 0, 10, 5>> } }

RECURSIVE AncestorsOrSelf(_, _)
AncestorsOrSelf(parent, i) ==
    IF i <= 1 THEN {1} ELSE {i} \cup AncestorsOrSelf(parent, parent[i])

\* the shapes of a tree of n nodes, the nodes numbered in pre-order: parent[i]
\* is the node that lists i among its children (0 for the root)
ParentMaps(n) ==
    { p \in [1..n -> 0..(n - 1)] :
        /\ p[1] = 0
        /\ \A i \in 2..n : p[i] \in 1..(i - 1)
        /\ \A i \in 3..n : p[i] \in AncestorsOrSelf(p, i - 1) }

TreesOfSize(profiles, n) ==
    { [nodes |-> nd, parent |-> p, broken |-> {}, unreadable |-> {}] :
        nd \in [1..n -> profiles], p \in ParentMaps(n) }

TreesOf(profiles) == UNION { TreesOfSize(profiles, n) : n \in 1..MaxNodes }

UiTrees == TreesOf(NodeProfiles)

NoTree == [nodes |-> << >>, parent |-> << >>, broken |-> {}, unreadable |-> {}]

\* control.GetChildren(): the children of node n from node j on, in their order
RECURSIVE ChildrenFrom(_, _, _)
ChildrenFrom(tree, n, j) ==
    IF j > Len(tree.nodes) THEN << >>
    ELSE (IF tree.parent[j] = n THEN <<j>> ELSE << >>) \o ChildrenFrom(tree, n, j + 1)

GetChildren(tree, n) == ChildrenFrom(tree, n, 1)

\* line 350: window_rect = target_control.BoundingRectangle
WindowRect(tree, target_control) ==
    LET r == tree.nodes[target_control].rect IN
    [left |-> r[1], top |-> r[2], right |-> r[1] + r[3], bottom |-> r[2] + r[4]]

\* UIScanner._is_interactive (lines 447-474), its properties being readable
IsInteractive(node) ==
    /\ node.kind \in CLICKABLE_TYPES
    /\ node.enabled
    /\ ~(node.rect[3] <= 0 \/ node.rect[4] <= 0)

\* the extraction without the filter on the visible area
ExtractElementInfoAnyArea(node, name, element_id, window_rect, include_offscreen) ==
    <<[id |-> element_id, source |-> "api", name |-> name, type |-> node.kind,
       rect |-> node.rect,
       center |-> <<node.rect[1] + (node.rect[3] \div 2),
                    node.rect[2] + (node.rect[4] \div 2)>>]>>

\* UIScanner._extract_element_info (lines 476-540): << >> is None, otherwise the
\* one element.  name stands for control.Name.
ExtractElementInfo(node, name, element_id, window_rect, include_offscreen) ==
    LET x == node.rect[1]
        y == node.rect[2]
        w == node.rect[3]
        h == node.rect[4]
        area == w * h
    IN  IF area < min_visible_area THEN << >>
        ELSE IF ~include_offscreen
                /\ (\/ x + w < window_rect.left
                    \/ x > window_rect.right
                    \/ y + h < window_rect.top
                    \/ y > window_rect.bottom)
             THEN << >>
        ELSE <<[id |-> element_id, source |-> "api", name |-> name, type |-> node.kind,
                rect |-> <<x, y, w, h>>,
                center |-> <<x + (w \div 2), y + (h \div 2)>>]>>

\* every child visited although GetChildren() raised
ChildrenVisitedAnyway(tree, control) == GetChildren(tree, control)

\* lines 421-440: the children the loop visits; none when GetChildren() raises
ChildrenVisited(tree, control) ==
    IF control \in tree.broken THEN << >> ELSE GetChildren(tree, control)

\* UIScanner._traverse_ui_tree (lines 383-445).  acc is [elements, element_id]:
\* the list the method appends to and element_id_ref[0].
\* A node whose properties raise is not interactive (the except of
\* _is_interactive, line 473); a node whose GetChildren() raises has no child
\* visited (the except of line 438).
RECURSIVE TraverseUiTree(_, _, _, _, _, _)
RECURSIVE TraverseChildren(_, _, _, _, _, _, _)
TraverseUiTree(tree, control, acc, window_rect, depth, cfg) ==
    IF depth > cfg.max_depth THEN acc
    ELSE LET node == tree.nodes[control]
             element_info ==
                 IF control \notin tree.unreadable /\ IsInteractive(node)
                 THEN ExtractElementInfo(node, control, acc.element_id,
                                         window_rect, cfg.include_offscreen)
                 ELSE << >>
             acc1 == IF element_info # << >>
                     THEN [elements |-> acc.elements \o element_info,
                           element_id |-> acc.element_id + 1]
                     ELSE acc
             children == ChildrenVisited(tree, control)
         IN  TraverseChildren(tree, children, 1, acc1, window_rect, depth, cfg)

\* lines 425-440: the loop over the children, from child i on
TraverseChildren(tree, children, i, acc, window_rect, depth, cfg) ==
    IF i > Len(children) THEN acc
    ELSE TraverseChildren(tree, children, i + 1,
                          TraverseUiTree(tree, children[i], acc, window_rect,
                                         depth + 1, cfg),
                          window_rect, depth, cfg)

\* the traversal entered at depth 1
ScanActiveWindowFromDepthOne(tree, target_control, cfg) ==
    TraverseUiTree(tree, target_control, [elements |-> << >>, element_id |-> 1],
                   WindowRect(tree, target_control), 1, cfg).elements

\* UIScanner.scan_active_window, lines 349-365: the elements collected below
\* target_control
ScanActiveWindow(tree, target_control, cfg) ==
    TraverseUiTree(tree, target_control, [elements |-> << >>, element_id |-> 1],
                   WindowRect(tree, target_control), 0, cfg).elements

\* what the window titles of the model are to the detection of lines 305-315
BrowserTitles == {"Google Chrome", "Slack - Google Chrome"}
ElectronTitles == {"Slack - Google Chrome"}
IsBrowser(window_name) == window_name \in BrowserTitles
IsElectronApp(window_name) == window_name \in ElectronTitles

\* the timeouts of lines 323 and 344, and the depth of line 335
BROWSER_SEARCH_TIMEOUT == 1
RESTORED_SEARCH_TIMEOUT == 10
BROWSER_MAX_DEPTH == 20

\* the render surface active_window.Control(...) finds: the first child of the
\* window
RenderWidget(tree) == Head(GetChildren(tree, 1))

NoScanError == "none"

\* the timeout left behind by a search that raised, were the restoration of
\* line 344 not in a finally
SearchTimeoutLeftOnError(win, timeout) ==
    IF IsBrowser(win.name) /\ ~IsElectronApp(win.name)
    THEN (IF win.render = "raises" THEN BROWSER_SEARCH_TIMEOUT
          ELSE RESTORED_SEARCH_TIMEOUT)
    ELSE timeout

\* lines 317-344: the timeout after the branch of the browser
SearchTimeoutAfter(win, timeout) ==
    IF IsBrowser(win.name) /\ ~IsElectronApp(win.name)
    THEN RESTORED_SEARCH_TIMEOUT
    ELSE timeout

\* the call raising whenever anything in it failed
ScanActiveWindowCallStrict(win, tree, cfg, timeout) ==
    LET deep == IsBrowser(win.name) /\ ~IsElectronApp(win.name)
        faulty == tree.broken # {} \/ tree.unreadable # {}
                  \/ (deep /\ win.render = "raises")
    IN  IF ~win.exists \/ win.props = "raises" \/ win.bounds = "raises" \/ faulty
        THEN [raised |-> "UIScannerError", elements |-> << >>,
              max_depth |-> cfg.max_depth,
              search_timeout |-> SearchTimeoutAfter(win, timeout)]
        ELSE [raised |-> NoScanError,
              elements |-> ScanActiveWindow(tree,
                               IF deep /\ win.render = "found"
                               THEN RenderWidget(tree) ELSE 1,
                               [cfg EXCEPT !.max_depth =
                                   IF deep /\ win.render = "found"
                                   THEN BROWSER_MAX_DEPTH ELSE cfg.max_depth]),
              max_depth |-> cfg.max_depth,
              search_timeout |-> SearchTimeoutAfter(win, timeout)]

\* UIScanner.scan_active_window (lines 289-381) as a whole: [raised, elements,
\* max_depth, search_timeout] are the exception of the call, the list it
\* returns, self.max_depth and the process-wide timeout after it.
\* win.props and win.bounds say whether reading active_window.Name and
\* target_control.BoundingRectangle raises, win.render what the search for the
\* render surface meets.
ScanActiveWindowCall(win, tree, cfg, timeout) ==
    IF ~win.exists \/ win.props = "raises"
    THEN [raised |-> "UIScannerError", elements |-> << >>,
          max_depth |-> cfg.max_depth, search_timeout |-> timeout]
    ELSE LET deep == IsBrowser(win.name) /\ ~IsElectronApp(win.name)
             found == deep /\ win.render = "found"
             target_control == IF found THEN RenderWidget(tree) ELSE 1
             max_depth == IF found THEN BROWSER_MAX_DEPTH ELSE cfg.max_depth
             timeout1 == SearchTimeoutAfter(win, timeout)
         IN  IF win.bounds = "raises"
             THEN [raised |-> "UIScannerError", elements |-> << >>,
                   max_depth |-> max_depth, search_timeout |-> timeout1]
             ELSE [raised |-> NoScanError,
                   elements |-> ScanActiveWindow(tree, target_control,
                                    [cfg EXCEPT !.max_depth = max_depth]),
                   max_depth |-> cfg.max_depth, search_timeout |-> timeout1]

Max(a, b) == IF a > b THEN a ELSE b
Min(a, b) == IF a < b THEN a ELSE b

\* A score is the fraction <<numerator, denominator>>, denominator > 0.
Zero == <<0, 1>>

\* the union taken as the sum of the two areas
CalculateIouSumAsUnion(rect1, rect2) ==
    LET x_left == Max(rect1[1], rect2[1])
        y_top == Max(rect1[2], rect2[2])
        x_right == Min(rect1[1] + rect1[3], rect2[1] + rect2[3])
        y_bottom == Min(rect1[2] + rect1[4], rect2[2] + rect2[4])
        intersection_area == (x_right - x_left) * (y_bottom - y_top)
        union_area == rect1[3] * rect1[4] + rect2[3] * rect2[4]
    IN  IF x_right < x_left \/ y_bottom < y_top THEN Zero
        ELSE IF union_area = 0 THEN Zero
        ELSE <<intersection_area, union_area>>

\* HybridScanner._calculate_iou (lines 879-928)
CalculateIou(rect1, rect2) ==
    LET x_left == Max(rect1[1], rect2[1])
        y_top == Max(rect1[2], rect2[2])
        x_right == Min(rect1[1] + rect1[3], rect2[1] + rect2[3])
        y_bottom == Min(rect1[2] + rect1[4], rect2[2] + rect2[4])
        intersection_area == (x_right - x_left) * (y_bottom - y_top)
        box1_area == rect1[3] * rect1[4]
        box2_area == rect2[3] * rect2[4]
        union_area == box1_area + box2_area - intersection_area
    IN  IF x_right < x_left \/ y_bottom < y_top THEN Zero
        ELSE IF union_area = 0 THEN Zero
        ELSE <<intersection_area, union_area>>

\* iou >= threshold, and iou = 1.0, on fractions
AtLeast(iou, threshold) == iou[1] * threshold[2] >= threshold[1] * iou[2]
IsOne(iou) == iou[1] = iou[2]

\* a vision element is dropped only above the threshold
IsDuplicateAboveThreshold(vision_elem, api_elems, threshold) ==
    \E i \in 1..Len(api_elems) :
        /\ AtLeast(CalculateIou(vision_elem.rect, api_elems[i].rect), threshold)
        /\ ~AtLeast(threshold, CalculateIou(vision_elem.rect, api_elems[i].rect))

\* lines 858-871 of _merge_elements: the inner loop over the API elements
IsDuplicate(vision_elem, api_elems, threshold) ==
    \E i \in 1..Len(api_elems) :
        AtLeast(CalculateIou(vision_elem.rect, api_elems[i].rect), threshold)

\* HybridScanner._merge_elements (lines 835-877), from vision element i on
RECURSIVE MergeFrom(_, _, _, _, _)
MergeFrom(api_elems, vision_elems, threshold, i, result) ==
    IF i > Len(vision_elems) THEN result
    ELSE MergeFrom(api_elems, vision_elems, threshold, i + 1,
                   IF IsDuplicate(vision_elems[i], api_elems, threshold)
                   THEN result ELSE Append(result, vision_elems[i]))

MergeElements(api_elems, vision_elems, threshold) ==
    MergeFrom(api_elems, vision_elems, threshold, 1, api_elems)

\* ids counted from 0
ReassignIdsFromZero(elems) == [i \in 1..Len(elems) |-> [elems[i] EXCEPT !.id = i - 1]]

\* lines 828-831 of HybridScanner.scan: sequential ids from 1
ReassignIds(elems) == [i \in 1..Len(elems) |-> [elems[i] EXCEPT !.id = i]]

\* HybridScanner.scan (lines 793-833); scan_active_window is called with its
\* default include_offscreen = False
HybridScan(api_elems, vision_elems, threshold) ==
    ReassignIds(MergeElements(api_elems, vision_elems, threshold))

\* the elements a visual detector reports (lines 103-167): no id yet (0), and a
\* rectangle that equals the first button's, is its left half, overlaps it by a
\* third, has width 0, or lies apart from everything
VisionRects ==
    { <<0, 0, 10, 5>>, <<0, 0, 5, 5>>, <<5, 0, 10, 5>>, <<0, 0, 0, 5>>, <<40, 0, 10, 5>> }

VisionElement(r) ==
    [id |-> 0, source |-> "vision", name |-> 0, type |-> "icon", rect |-> r,
     center |-> <<r[1] + (r[3] \div 2), r[2] + (r[4] \div 2)>>]

DetectionLists ==
    UNION { [1..n -> { VisionElement(r) : r \in VisionRects }] : n \in 0..MaxDetections }

\* iou_threshold: 0.0, the default 0.5 and 1.0
Thresholds == { <<0, 1>>, <<1, 2>>, <<1, 1>> }
DefaultThreshold == <<1, 2>>

ScannerConfigs ==
    { [max_depth |-> d, include_offscreen |-> o] : d \in 1..2, o \in BOOLEAN }

\* a foreground window that is no browser and reads without failure
PlainWindow ==
    [exists |-> TRUE, name |-> "Notepad", props |-> "ok", render |-> "notfound",
     bounds |-> "ok"]

\* the foreground windows: none; a plain window, an Electron application and a
\* browser, each with what reading it meets
Windows ==
    { [PlainWindow EXCEPT !.exists = FALSE],
      PlainWindow,
      [PlainWindow EXCEPT !.props = "raises"],
      [PlainWindow EXCEPT !.bounds = "raises"],
      [PlainWindow EXCEPT !.name = "Slack - Google Chrome"] }
    \cup { [PlainWindow EXCEPT !.name = "Google Chrome", !.render = r, !.bounds = b] :
             r \in {"found", "notfound", "raises"}, b \in {"ok", "raises"} }

\* no scan has been asked for; the search timeout is the one uiautomation
\* starts with, 10 seconds, which no other code of the repository changes
ScannerIdle ==
    /\ ui_tree = NoTree
    /\ scanner_config = [max_depth |-> 15, include_offscreen |-> FALSE]
    /\ detections = << >>
    /\ iou_threshold = DefaultThreshold
    /\ scans_done = {}
    /\ api_elements = << >>
    /\ merged = << >>
    /\ window = PlainWindow
    /\ search_timeout = RESTORED_SEARCH_TIMEOUT
    /\ scan_raised = NoScanError
    /\ configured_max_depth = 15

\* a call of UIScanner.scan_active_window returns or raises
ScanActiveWindowStep ==
    /\ ui_tree # NoTree
    /\ "api" \notin scans_done
    /\ LET r == ScanActiveWindowCall(window, ui_tree, scanner_config, search_timeout)
       IN  /\ api_elements' = r.elements
           /\ scan_raised' = r.raised
           /\ scanner_config' = [scanner_config EXCEPT !.max_depth = r.max_depth]
           /\ search_timeout' = r.search_timeout
    /\ scans_done' = scans_done \cup {"api"}
    /\ UNCHANGED << agent_vars, component_vars, ui_tree, detections, iou_threshold, merged, window,
                    configured_max_depth >>

\* a call of HybridScanner.scan returns, or raises what scan_active_window
\* raised; scan_active_window is called with its default include_offscreen
HybridScanStep ==
    /\ ui_tree # NoTree
    /\ "hybrid" \notin scans_done
    /\ LET r == ScanActiveWindowCall(window, ui_tree,
                     [scanner_config EXCEPT !.include_offscreen = FALSE],
                     search_timeout)
       IN  /\ merged' = IF r.raised = NoScanError
                        THEN HybridScan(r.elements, detections, iou_threshold)
                        ELSE merged
           /\ scan_raised' = r.raised
           /\ scanner_config' = [scanner_config EXCEPT !.max_depth = r.max_depth]
           /\ search_timeout' = r.search_timeout
    /\ scans_done' = scans_done \cup {"hybrid"}
    /\ UNCHANGED << agent_vars, component_vars, ui_tree, detections, iou_threshold, api_elements,
                    window, configured_max_depth >>

NextScanner ==
    \/ ScanActiveWindowStep
    \/ HybridScanStep

(* ---------------- components exercised on their own ---------------- *)
\* A call of _compare_screenshots: its two paths, the disk it reads, whether
\* the comparison raises, and, once called, its result.
NoCompare ==
    [current_path |-> SCREENSHOT_PATH, previous_path |-> NonePath,
     disk |-> ScreenshotOnly(NoFrame), cmp_fails |-> FALSE, called |-> FALSE,
     result |-> FALSE]

\* frames of ten channel values whose first value alone differs: against the
\* black frame their mean difference is 0, 50/10, 51/10 and 52/10 of 255
\* hundredths, the third being exactly CHANGE_THRESHOLD per cent
CompareFrames ==
    { [i \in 1..10 |-> IF i = 1 THEN v ELSE 0] : v \in {0, 50, 51, 52} }

\* the disks a call can meet: the current and the previous screenshot are two
\* files, each a frame or missing
CompareDisks ==
    { [path \in {SCREENSHOT_PATH, "previous.png"} |->
          IF path = SCREENSHOT_PATH THEN cur ELSE prev] :
        cur \in CompareFrames \cup {NoFrame}, prev \in CompareFrames \cup {NoFrame} }

InitCompareCall ==
    compare_call \in
        { [NoCompare EXCEPT !.previous_path = pp, !.disk = d, !.cmp_fails = cf] :
            pp \in {NonePath, "previous.png"}, d \in CompareDisks, cf \in BOOLEAN }

\* _compare_screenshots(current_path, previous_path) is called
CompareCall ==
    /\ ~compare_call.called
    /\ compare_call' =
          [compare_call EXCEPT
              !.called = TRUE,
              !.result = CompareScreenshots(compare_call.current_path,
                                            compare_call.previous_path,
                                            compare_call.disk,
                                            compare_call.cmp_fails)]
    /\ UNCHANGED << agent_vars, scanner_vars, controller, desktop >>

NextCompare == CompareCall

\* The DesktopController: [screen_width, screen_height, ai_image_width,
\* ai_image_height, enable_playwright, playwright_context, browser, page].
\* playwright_context is "None" or "started", browser "None", "connected" or
\* "disconnected" (the connection broke), page "None", "valid" or "invalid".
NoConnection == "None"

\* DesktopController.__init__ (lines 42-105) on a screen of 4 x 2 pixels
ControllerConfigs ==
    { [screen_width |-> 4, screen_height |-> 2, ai_image_width |-> ai[1],
       ai_image_height |-> ai[2], enable_playwright |-> e,
       playwright_context |-> NoConnection, browser |-> NoConnection,
       page |-> NoConnection] :
        ai \in { <<4, 2>>, <<2, 1>>, <<8, 4>> }, e \in BOOLEAN }

DefaultController ==
    CHOOSE c \in ControllerConfigs :
        c.ai_image_width = c.screen_width /\ c.enable_playwright

\* the pointer, and the last call of the controller: its name, its arguments
\* (given says which of x and y a scroll was given), the exception it raised
\* and whether it reached pyautogui
IdleDesktop ==
    [pointer |-> <<0, 0>>, op |-> "none", x |-> 0, y |-> 0, scale |-> FALSE,
     given |-> "both", raised |-> NoException, actuated |-> FALSE]

ComponentsIdle ==
    /\ compare_call = NoCompare
    /\ controller = DefaultController
    /\ desktop = IdleDesktop

\* int() of the quotient a / b of a float: truncation towards zero
IntDiv(a, b) == IF a >= 0 THEN a \div b ELSE -((-a) \div b)

\* DesktopController.scale_coordinates (lines 107-132), scale_x and scale_y
\* being screen size / image size
ScaleCoordinates(c, x, y) ==
    << IntDiv(x * c.screen_width, c.ai_image_width),
       IntDiv(y * c.screen_height, c.ai_image_height) >>

\* the bounds taken inclusive of the screen size
ValidateCoordinatesInclusive(c, x, y) ==
    (0 <= x /\ x <= c.screen_width) /\ (0 <= y /\ y <= c.screen_height)

\* DesktopController.validate_coordinates (lines 134-158): TRUE when it
\* returns, FALSE when it raises CoordinateOutOfBoundsError
ValidateCoordinates(c, x, y) ==
    (0 <= x /\ x < c.screen_width) /\ (0 <= y /\ y < c.screen_height)

\* what a call leaves behind once pyautogui was reached at target: act is what
\* pyautogui does ("except (CoordinateOutOfBoundsError,
\* pyautogui.FailSafeException): raise", every other exception becomes
\* DesktopControllerError)
Actuated(pointer, target, act) ==
    [raised |-> IF act = "error" THEN "DesktopControllerError"
                ELSE IF act = "failsafe" THEN "FailSafeException"
                ELSE NoException,
     actuated |-> TRUE,
     pointer |-> IF act = "done" THEN target ELSE pointer]

\* move_mouse (lines 160-198) and click_element (lines 200-255): scale,
\* validate, then move (and click)
MoveOrClick(c, pointer, x, y, scale, act) ==
    LET target == IF scale THEN ScaleCoordinates(c, x, y) ELSE <<x, y>> IN
    IF ~ValidateCoordinates(c, target[1], target[2])
    THEN [raised |-> "CoordinateOutOfBoundsError", actuated |-> FALSE,
          pointer |-> pointer]
    ELSE Actuated(pointer, target, act)

\* scroll (lines 294-335): the pointer is moved, after validation, only when x
\* and y are both given
ScrollCall(c, pointer, x, y, given, scale, act) ==
    IF given = "both"
    THEN MoveOrClick(c, pointer, x, y, scale, act)
    ELSE Actuated(pointer, pointer, act)

\* the points <<x, y>> the calls are given: inside the screen, on and beyond
\* its edges, and points that scaling moves into or out of the screen
Points ==
    { <<0, 0>>, <<3, 1>>, <<4, 1>>, <<3, 2>>, <<-1, 0>>, <<1, 0>>, <<2, 0>>,
      <<7, 3>>, <<8, 3>> }

PointerStep(op, x, y, given, scale, r) ==
    /\ desktop' = [pointer |-> r.pointer, op |-> op, x |-> x, y |-> y,
                   scale |-> scale, given |-> given, raised |-> r.raised,
                   actuated |-> r.actuated]
    /\ UNCHANGED << agent_vars, scanner_vars, compare_call, controller >>

MoveMouse ==
    \E pt \in Points, scale \in BOOLEAN, act \in ActuatorOutcomes :
       PointerStep("move_mouse", pt[1], pt[2], "both", scale,
                   MoveOrClick(controller, desktop.pointer, pt[1], pt[2], scale, act))

ClickElement ==
    \E pt \in Points, scale \in BOOLEAN, act \in ActuatorOutcomes :
       PointerStep("click_element", pt[1], pt[2], "both", scale,
                   MoveOrClick(controller, desktop.pointer, pt[1], pt[2], scale, act))

Scroll ==
    \E pt \in Points, given \in {"both", "x", "none"}, scale \in BOOLEAN,
       act \in ActuatorOutcomes :
       PointerStep("scroll", pt[1], pt[2], given, scale,
                   ScrollCall(controller, desktop.pointer, pt[1], pt[2], given,
                              scale, act))

\* _ensure_browser_connection (lines 457-552).  met is what the attempt to
\* connect meets: the CDP port is closed, connect_over_cdp raises, the browser
\* has no context, or a page is obtained.
EnsureBrowserConnectionCall(c, met) ==
    IF ~c.enable_playwright THEN c
    ELSE IF c.page = "valid" THEN c
    ELSE LET c1 == IF c.page # NoConnection
                   THEN [c EXCEPT !.page = NoConnection, !.browser = NoConnection]
                   ELSE c
             c2 == [c1 EXCEPT !.playwright_context = "started"]
         IN  CASE met = "port_closed"   -> c1
               [] met = "connect_fails" -> c2
               [] met = "no_context"    -> [c2 EXCEPT !.browser = "connected"]
               [] OTHER -> [c2 EXCEPT !.browser = "connected", !.page = "valid"]

\* close_playwright (lines 704-721).  close_raises: self.browser.close()
\* raises; the handler of line 720 prints and returns.
ClosePlaywrightCall(c, close_raises) ==
    LET c1 == [c EXCEPT !.page = NoConnection] IN
    IF c1.browser # NoConnection /\ close_raises THEN c1
    ELSE [c1 EXCEPT !.browser = NoConnection, !.playwright_context = NoConnection]

ControllerStep(op, c) ==
    /\ controller' = c
    /\ desktop' = [desktop EXCEPT !.op = op, !.raised = NoException,
                                  !.actuated = FALSE]
    /\ UNCHANGED << agent_vars, scanner_vars, compare_call >>

EnsureBrowserConnection ==
    \E met \in {"port_closed", "connect_fails", "no_context", "page"} :
       ControllerStep("ensure_browser_connection",
                      EnsureBrowserConnectionCall(controller, met))

\* the connection to the browser breaks: the browser object is disconnected
\* and its page no longer valid
ConnectionBreaks ==
    /\ controller.browser = "connected"
    /\ ControllerStep("none",
                      [controller EXCEPT
                          !.browser = "disconnected",
                          !.page = IF @ = "valid" THEN "invalid" ELSE @])

\* close() of a browser object can raise once its connection is broken
ClosePlaywright ==
    \E close_raises \in IF controller.browser = "disconnected"
                        THEN BOOLEAN ELSE {FALSE} :
       ControllerStep("close_playwright",
                      ClosePlaywrightCall(controller, close_raises))

NextController ==
    \/ MoveMouse
    \/ ClickElement
    \/ Scroll
    \/ EnsureBrowserConnection
    \/ ConnectionBreaks
    \/ ClosePlaywright

\* The environments the specifications run the agent in.
\* EnvPlan: complex and simple tasks, every planner outcome, every oracle text;
\* the display keeps showing one frame and the scan finds nothing.
EnvPlan ==
    [complex |-> BOOLEAN, planner |-> PlannerOutcomes, texts |-> Texts,
     batches |-> { << >>, <<"click">> }, frames |-> { <<0, 0>> },
     scans |-> {"empty"}, cmp_fails |-> BOOLEAN,
     actuator |-> {"done", "failsafe"}, observe |-> FALSE, cap |-> MaxHistory]

\* EnvStuck: simple tasks (no plan), every frame, scan and comparison outcome
EnvStuck ==
    [complex |-> {FALSE}, planner |-> PlannerOutcomes,
     texts |-> { << >>, <<"ok">>, <<"Done">> },
     batches |-> { << >>, <<"click">> }, frames |-> Frames,
     scans |-> {"elements", "empty", "scanfail", "overlayfail"},
     cmp_fails |-> BOOLEAN, actuator |-> {"done", "failsafe"}, observe |-> FALSE, cap |-> MaxHistory]

\* EnvDispatch: simple tasks, batches of every kind of call, every outcome of
\* the controller
EnvDispatch ==
    [complex |-> {FALSE}, planner |-> PlannerOutcomes, texts |-> { <<"ok">> },
     batches |-> { << >> } \cup { <<c>> : c \in Calls }
                 \cup { <<c, "type">> : c \in Calls },
     frames |-> { <<0, 0>> }, scans |-> {"empty"}, cmp_fails |-> {FALSE},
     actuator |-> ActuatorOutcomes, observe |-> FALSE, cap |-> MaxHistory]

\* EnvHistory: simple tasks, short batches, the history and the batch of the
\* pass before are observed
EnvHistory ==
    [complex |-> {FALSE}, planner |-> PlannerOutcomes,
     texts |-> { <<"ok">> },
     batches |-> { << >>, <<"click">>, <<"type", "click">> },
     frames |-> { <<0, 0>> }, scans |-> {"empty"}, cmp_fails |-> {FALSE},
     actuator |-> {"done", "failsafe"}, observe |-> TRUE, cap |-> MaxHistory]

\* EnvClick: simple tasks whose oracle clicks by element id; the scan finds
\* the elements 1 and 2, the elements 1, 2 and 3, or nothing; the catalogue of
\* the pass before is observed
EnvClick ==
    [complex |-> {FALSE}, planner |-> PlannerOutcomes,
     texts |-> { <<"ok">> }, batches |-> { <<c>> : c \in IdCalls },
     frames |-> { <<0, 0>> }, scans |-> {"elements", "many", "empty"},
     cmp_fails |-> {FALSE}, actuator |-> {"done", "error"}, observe |-> TRUE,
     cap |-> MaxClickPasses]

\* EnvCarry: simple tasks whose oracle answers with one click in every pass;
\* the history is observed until it is longer than the window of the prompt
EnvCarry ==
    [complex |-> {FALSE}, planner |-> PlannerOutcomes,
     texts |-> { <<"ok">> }, batches |-> { <<"click">> },
     frames |-> { <<0, 0>> }, scans |-> {"empty"}, cmp_fails |-> {FALSE},
     actuator |-> {"done"}, observe |-> TRUE, cap |-> MaxCarried]

Init == InitAgent /\ world = EnvPlan /\ ScannerIdle /\ ComponentsIdle
InitStuck == InitAgent /\ world = EnvStuck /\ ScannerIdle /\ ComponentsIdle
InitDispatch == InitAgent /\ world = EnvDispatch /\ ScannerIdle /\ ComponentsIdle
InitHistory == InitAgent /\ world = EnvHistory /\ ScannerIdle /\ ComponentsIdle
InitClick == InitAgent /\ world = EnvClick /\ ScannerIdle /\ ComponentsIdle
InitCarry == InitAgent /\ world = EnvCarry /\ ScannerIdle /\ ComponentsIdle

Spec == Init /\ [][Next]_vars
SpecStuck == InitStuck /\ [][Next]_vars
SpecDispatch == InitDispatch /\ [][Next]_vars
SpecHistory == InitHistory /\ [][Next]_vars
SpecClick == InitClick /\ [][Next]_vars
SpecCarry == InitCarry /\ [][Next]_vars

\* a scanner before any window: every tree, no visual detector (the detector of
\* the repository returns no element)
InitScan ==
    /\ InitAgent
    /\ world = EnvStuck
    /\ ui_tree \in UiTrees
    /\ scanner_config \in ScannerConfigs
    /\ detections = << >>
    /\ iou_threshold = DefaultThreshold
    /\ scans_done = {}
    /\ api_elements = << >>
    /\ merged = << >>
    /\ window = PlainWindow
    /\ search_timeout = RESTORED_SEARCH_TIMEOUT
    /\ scan_raised = NoScanError
    /\ configured_max_depth = scanner_config.max_depth
    /\ ComponentsIdle

\* a hybrid scanner with a detector: trees of nodes that qualify or contain,
\* every list of detections, every threshold
InitMerge ==
    /\ InitAgent
    /\ world = EnvStuck
    /\ ui_tree \in TreesOf(MergeProfiles)
    /\ scanner_config = [max_depth |-> 15, include_offscreen |-> FALSE]
    /\ detections \in DetectionLists
    /\ iou_threshold \in Thresholds
    /\ scans_done = {}
    /\ api_elements = << >>
    /\ merged = << >>
    /\ window = PlainWindow
    /\ search_timeout = RESTORED_SEARCH_TIMEOUT
    /\ scan_raised = NoScanError
    /\ configured_max_depth = scanner_config.max_depth
    /\ ComponentsIdle

SpecScan == InitScan /\ [][NextScanner]_vars
SpecMerge == InitMerge /\ [][NextScanner]_vars

\* the nodes of the trees the failures are studied on: a button that qualifies
\* and a container
FaultProfiles ==
    { n \in NodeProfiles : n.enabled /\ n.rect = <<0, 0, 10, 5>> }

\* trees in which at most one node cannot list its children and at most one
\* node cannot be read
FaultyTrees ==
    { [t EXCEPT !.broken = b, !.unreadable = u] :
        t \in UNION { TreesOfSize(FaultProfiles, n) : n \in 1..MaxFaultyNodes },
        b \in { {} } \cup { {n} : n \in 1..MaxFaultyNodes },
        u \in { {} } \cup { {n} : n \in 1..MaxFaultyNodes } }

\* a scanner before any of the windows, on a tree with or without failing nodes
InitWindow ==
    /\ InitAgent
    /\ world = EnvStuck
    /\ ui_tree \in { t \in FaultyTrees :
                        (t.broken \cup t.unreadable) \subseteq 1..Len(t.nodes) }
    /\ window \in Windows
    /\ (window.render = "found" => Len(ui_tree.nodes) >= 2)
    /\ scanner_config \in { c \in ScannerConfigs : ~c.include_offscreen }
    /\ detections = << >>
    /\ iou_threshold = DefaultThreshold
    /\ scans_done = {}
    /\ api_elements = << >>
    /\ merged = << >>
    /\ search_timeout = RESTORED_SEARCH_TIMEOUT
    /\ scan_raised = NoScanError
    /\ configured_max_depth = scanner_config.max_depth
    /\ ComponentsIdle

SpecWindow == InitWindow /\ [][NextScanner]_vars

\* _compare_screenshots before a call, on every pair of files
InitCompare ==
    /\ InitAgent
    /\ world = EnvStuck
    /\ ScannerIdle
    /\ InitCompareCall
    /\ controller = DefaultController
    /\ desktop = IdleDesktop

SpecCompare == InitCompare /\ [][NextCompare]_vars

\* a controller after its construction, for every size of the oracle's image
InitController ==
    /\ InitAgent
    /\ world = EnvStuck
    /\ ScannerIdle
    /\ compare_call = NoCompare
    /\ controller \in ControllerConfigs
    /\ desktop = IdleDesktop

SpecController == InitController /\ [][NextController]_vars

TypeOK ==
    /\ pc \in {"idle", "while", "capture", "compare", "decide"}
    /\ iteration \in 0..MAX_ITERATIONS
    /\ stuck_count \in Nat

(* ======================= properties ======================= *)

\* C1 (as claimed): in every pass k >= 2 the stuck check compares the frame of
\* pass k with the frame of pass k-1: when the two differ by more than the
\* threshold, the check reports a change and the stuck counter is 0.
C1_ChangeDetected ==
    (pc = "decide" /\ iteration >= 2 /\ previous_frame # NoFrame
        /\ DiffExceedsThreshold(frame, previous_frame))
    => (state_changed /\ stuck_count = 0)

\* C2: a run makes at most MAX_ITERATIONS passes and oracle calls, and when
\* the loop guard is met with the bound reached and the task not complete,
\* the run ends there as Exhausted, run_task returning False.
C2_BoundedPasses ==
    /\ [](iteration <= MAX_ITERATIONS /\ oracle_calls <= iteration)
    /\ [][(pc = "while" /\ iteration >= MAX_ITERATIONS /\ ~task_complete)
            => (pc' = "idle" /\ outcome' = "Exhausted" /\ ~ReturnValue(outcome')
                /\ iteration' = iteration /\ oracle_calls' = oracle_calls)]_vars

C2_Witness ==
    pc = "idle" /\ outcome = "Exhausted" /\ iteration = MAX_ITERATIONS
        /\ oracle_calls = MAX_ITERATIONS

\* C3: the attempts on the current sub-goal never exceed max_subgoal_attempts.
C3_AttemptsBounded == subgoal_attempts <= max_subgoal_attempts

C3_Witness ==
    pc = "while" /\ subgoal_signal = "attempt" /\ replan_outcome # "none"
        /\ subgoal_attempts = 0 /\ plan # NoPlan

\* C4 (as claimed): when a pass raises the attempts to the maximum and the
\* re-plan it requests fails (the planner errors or gives no usable plan), the
\* index moves to the next sub-goal and the attempts return to 0.
C4_FailedForcedReplanAdvances ==
    [][(pc = "decide" /\ subgoal_signal' = "attempt"
          /\ subgoal_attempts + 1 >= max_subgoal_attempts
          /\ replan_outcome' \in {"noitems", "apierror", "raise"})
        => (current_subgoal_index' = current_subgoal_index + 1
            /\ subgoal_attempts' = 0)]_vars

\* C5 (as claimed): with an active sub-goal i, a pass whose oracle text holds
\* the sub-goal-complete marker ends with index i+1, attempts 0 and stuck
\* counter 0, whatever actions the response carries.
C5_CompleteResetsAll ==
    [][(pc = "decide" /\ ActiveSubgoal(plan, current_subgoal_index)
          /\ subgoal_signal' = "complete")
        => (current_subgoal_index' = current_subgoal_index + 1
            /\ subgoal_attempts' = 0
            /\ stuck_count' = 0)]_vars

\* C5 (amended): such a pass ends with index i+1 and attempts 0; the stuck
\* counter ends at 0 unless the pass is not the first of the run and its
\* non-empty action batch equals the last recorded batch, and then at 1.
C5_CompleteResets ==
    [][(pc = "decide" /\ ActiveSubgoal(plan, current_subgoal_index)
          /\ subgoal_signal' = "complete")
        => (current_subgoal_index' = current_subgoal_index + 1
            /\ subgoal_attempts' = 0
            /\ stuck_count' = (IF repeated_action' THEN 1 ELSE 0)
            /\ (repeated_action'
                  => (iteration > 1 /\ last_action_signature # NoSignature
                      /\ last_action_signature' = last_action_signature)))]_vars

C5_Witness ==
    subgoal_signal = "complete" /\ repeated_action /\ stuck_count = 1
        /\ subgoal_attempts = 0 /\ current_subgoal_index > 0

\* C6 (as claimed): a pass whose oracle text holds the sub-goal-impossible
\* marker asks for a fresh plan; when re-planning succeeds the plan is the new
\* one and index, attempts and stuck counter are 0; when it fails (planner
\* error or no usable plan) the plan and the index stay as they were.
C6_ImpossibleReplans ==
    [][(pc = "decide" /\ subgoal_signal' = "impossible")
        => /\ replan_outcome' # "none"
           /\ replan_outcome' = "items"
                => (plan' \in ParsedPlans /\ current_subgoal_index' = 0
                    /\ subgoal_attempts' = 0 /\ stuck_count' = 0)
           /\ replan_outcome' \in {"noitems", "apierror", "raise"}
                => (plan' = plan
                    /\ current_subgoal_index' = current_subgoal_index)]_vars

\* C7 (as claimed): run_task returns True only when every sub-goal of the
\* active plan is consumed, or when no plan is active; a run whose plan still
\* has unconsumed sub-goals is never reported Completed.
C7_CompletedOnlyWhenConsumed ==
    (pc = "idle" /\ outcome = "Completed")
    => (plan = NoPlan \/ current_subgoal_index = Len(plan))

\* C8 (as claimed): once the index equals the length of the active plan, by a
\* complete marker or by a forced advance, no further pass is made and the run
\* ends as Completed (a run cut short by an error or an interrupt aside).
C8_ConsumedPlanCompletes ==
    (plan # NoPlan /\ current_subgoal_index = Len(plan))
    => \/ pc = "while" /\ task_complete
       \/ pc = "idle" /\ outcome \in {"Completed", "Aborted"}

\* C9: whenever a plan is present, 0 <= current_subgoal_index <= len(plan).
C9_IndexInRange ==
    plan # NoPlan
    => (0 <= current_subgoal_index /\ current_subgoal_index <= Len(plan))

C9_Witness ==
    plan # NoPlan /\ current_subgoal_index = Len(plan)
        /\ subgoal_signal = "attempt" /\ replan_outcome = "raise"

\* C10 (as claimed): with an active, unconsumed sub-goal, every pass whose
\* response holds neither marker adds exactly one to the attempts (the forced
\* re-plan that the maximum triggers then returning them to 0), whatever the
\* text, the empty text included, and the action list are.
C10_AttemptCounted ==
    [][(pc = "decide" /\ ActiveSubgoal(plan, current_subgoal_index)
          /\ subgoal_signal' \in {"attempt", "notext"})
        => \/ subgoal_attempts' = subgoal_attempts + 1
           \/ (subgoal_attempts + 1 >= max_subgoal_attempts
               /\ subgoal_attempts' = 0)]_vars

\* C11 (as claimed): every call of a batch the oracle returned is dispatched, in
\* the order returned: whatever a single call meets (an unknown name, a missing
\* or invalid argument, coordinates outside the screen, an error or the
\* fail-safe of the controller), the pass ends with one result string per call
\* of the batch.  (A pass the operator interrupts before the dispatch aside.)
C11_EveryCallDispatched ==
    (pc \in {"while", "idle"} /\ issued_calls # << >> /\ error # "KeyboardInterrupt")
    => Len(execution_results) = Len(issued_calls)

\* C12 (as claimed): a run that ends before completion or exhaustion without a
\* verdict of its own was unwound by a capture failure, an oracle failure or the
\* operator (an interrupt, or the end of input at the prompt), and by nothing
\* else.
C12_UnwoundOnlyBy ==
    outcome = "Aborted"
    => error \in {"ScreenCaptureError", "GeminiAgentError", "KeyboardInterrupt",
                  "EOFError"}

\* C13 (as claimed): every pass that obtained an oracle response, a response
\* without actions included, appends exactly one record to the history, holding
\* the iteration number, the frame reference, the actions of the response and
\* one result string per action; no step changes or removes a record that is
\* already there.
C13_OneRecordPerPass ==
    [][/\ Len(history') >= Len(history)
       /\ SubSeq(history', 1, Len(history)) = history
       /\ (pc = "decide" /\ oracle_calls' = oracle_calls + 1
             /\ error' \notin {"GeminiAgentError", "KeyboardInterrupt"})
          => /\ Len(history') = Len(history) + 1
             /\ history'[Len(history')].iteration = iteration
             /\ history'[Len(history')].screenshot = SCREENSHOT_PATH
             /\ history'[Len(history')].function_calls = issued_calls'
             /\ Len(history'[Len(history')].execution_results) = Len(issued_calls')
      ]_vars

\* C14 (as claimed): the repeated-action rule counts a pass k exactly when
\* k > 1 and the pass before issued the same ordered, non-empty batch as pass k;
\* a batch that only equals one issued before an intervening pass is not counted.
C14_RepeatedIffInARow ==
    (pc = "while" /\ iteration >= 1)
    => (repeated_action
        <=> (iteration > 1 /\ issued_calls # << >> /\ issued_calls = previous_calls))

\* C15: when the context of a pass is handed to the oracle it carries the
\* correction hint exactly when the stuck counter is 2 or more; the hint is
\* absent in the first two passes of a run and in every pass whose frame
\* comparison reported a change.
C15_HintIffStuckTwice ==
    pc = "decide"
    => /\ (correction_hint <=> stuck_count >= 2)
       /\ (iteration <= 2 => ~correction_hint)
       /\ (state_changed => ~correction_hint)

C15_Witness ==
    pc = "decide" /\ correction_hint /\ stuck_count >= 2 /\ iteration >= 3

\* C16: whatever the API list, the vision list and the threshold, the result of
\* the hybrid scan holds no API element a and vision element v with
\* IoU(a.rect, v.rect) >= threshold.
C16_NoOverlappingPair ==
    "hybrid" \in scans_done
    => \A i, j \in 1..Len(merged) :
          (merged[i].source = "api" /\ merged[j].source = "vision")
          => ~AtLeast(CalculateIou(merged[i].rect, merged[j].rect), iou_threshold)

C16_Witness ==
    /\ "hybrid" \in scans_done
    /\ \E i, j \in 1..Len(merged) :
          merged[i].source = "api" /\ merged[j].source = "vision"
    /\ \E k \in 1..Len(detections) :
          \A j \in 1..Len(merged) : merged[j].rect # detections[k].rect

RectsInHand ==
    { ui_tree.nodes[i].rect : i \in 1..Len(ui_tree.nodes) }
        \cup { detections[i].rect : i \in 1..Len(detections) }

\* C18 (as claimed): IoU(r, r) = 1.0 for every rectangle r.
C18_SelfIouIsOne ==
    "hybrid" \in scans_done
    => \A r \in RectsInHand : IsOne(CalculateIou(r, r))

\* C18 (amended): IoU(r, r) = 1.0 for every rectangle r of positive width and
\* height; for a rectangle of area 0 it is 0.0.
C18_SelfIouIsOneUnlessEmpty ==
    "hybrid" \in scans_done
    => \A r \in RectsInHand :
          /\ (r[3] > 0 /\ r[4] > 0) => IsOne(CalculateIou(r, r))
          /\ (r[3] * r[4] = 0) => CalculateIou(r, r) = Zero

C18_Witness ==
    /\ "hybrid" \in scans_done
    /\ \E r \in RectsInHand : r[3] > 0 /\ r[4] > 0
    /\ \E r \in RectsInHand : r[3] * r[4] = 0
    /\ \E k \in 1..Len(detections), i \in 1..Len(api_elements) :
          detections[k].rect = api_elements[i].rect

\* C19: every element UIScanner returns has width > 0, height > 0, an area of
\* at least min_visible_area and a positive id; a node that fails one of these
\* is in no element of the result.
C19_ElementsAreVisible ==
    "api" \in scans_done
    => /\ \A k \in 1..Len(api_elements) :
             /\ api_elements[k].rect[3] > 0
             /\ api_elements[k].rect[4] > 0
             /\ api_elements[k].rect[3] * api_elements[k].rect[4] >= min_visible_area
             /\ api_elements[k].id > 0
       /\ \A n \in 1..Len(ui_tree.nodes) :
             (\/ ui_tree.nodes[n].rect[3] <= 0
              \/ ui_tree.nodes[n].rect[4] <= 0
              \/ ui_tree.nodes[n].rect[3] * ui_tree.nodes[n].rect[4] < min_visible_area)
             => \A k \in 1..Len(api_elements) : api_elements[k].name # n

C19_Witness ==
    /\ "api" \in scans_done
    /\ Len(api_elements) >= 1
    /\ \E n \in 1..Len(ui_tree.nodes) :
          /\ ui_tree.nodes[n].kind \in CLICKABLE_TYPES
          /\ ui_tree.nodes[n].enabled
          /\ ui_tree.nodes[n].rect[3] > 0
          /\ ui_tree.nodes[n].rect[3] * ui_tree.nodes[n].rect[4] < min_visible_area

\* the depth of node i: the root has depth 0
RECURSIVE DepthOf(_, _)
DepthOf(parent, i) == IF i <= 1 THEN 0 ELSE 1 + DepthOf(parent, parent[i])

\* node n passes the interactivity and the visibility tests
Qualifies(n) ==
    LET node == ui_tree.nodes[n]
        root == ui_tree.nodes[1].rect
    IN  /\ node.kind \in CLICKABLE_TYPES
        /\ node.enabled
        /\ node.rect[3] > 0 /\ node.rect[4] > 0
        /\ node.rect[3] * node.rect[4] >= min_visible_area
        /\ \/ scanner_config.include_offscreen
           \/ /\ node.rect[1] + node.rect[3] >= root[1]
              /\ node.rect[1] <= root[1] + root[3]
              /\ node.rect[2] + node.rect[4] >= root[2]
              /\ node.rect[2] <= root[2] + root[4]

\* C20: the result of the scan is exactly the nodes at depth <= max_depth that
\* pass the tests, in the pre-order of the tree (the numbering of the nodes),
\* with the ids 1..N in that order; a node is reached through its ancestors
\* whether or not they qualified.
C20_ScanIsPreOrderFilter ==
    "api" \in scans_done
    => LET Emitted(n) ==
               DepthOf(ui_tree.parent, n) <= scanner_config.max_depth /\ Qualifies(n)
           expected == SelectSeq([n \in 1..Len(ui_tree.nodes) |-> n], Emitted)
       IN  /\ Len(api_elements) = Len(expected)
           /\ \A k \in 1..Len(api_elements) :
                 /\ api_elements[k].id = k
                 /\ api_elements[k].name = expected[k]
                 /\ api_elements[k].rect = ui_tree.nodes[expected[k]].rect

C20_Witness ==
    /\ "api" \in scans_done
    /\ \E k \in 1..Len(api_elements) :
          /\ api_elements[k].name > 1
          /\ ~Qualifies(ui_tree.parent[api_elements[k].name])
    /\ \E n \in 1..Len(ui_tree.nodes) :
          Qualifies(n) /\ DepthOf(ui_tree.parent, n) > scanner_config.max_depth

\* the scan call has to raise by its own code: there is no foreground window,
\* or reading the window's name or the bounds of the traversal root raises
WindowUnreadable ==
    ~window.exists \/ window.props = "raises" \/ window.bounds = "raises"

\* something the scan absorbs has failed: the search for the render surface
\* raised, or a node of the tree cannot be read or cannot list its children
AbsorbedFailure ==
    \/ window.name = "Google Chrome" /\ window.render = "raises"
    \/ ui_tree.broken # {}
    \/ ui_tree.unreadable # {}

\* C21 (as claimed): a scan call raises only when there is no foreground
\* window; with a window it returns its list whatever failed while scanning.
C21_RaisesOnlyWithoutWindow ==
    scans_done # {} => (scan_raised # NoScanError => ~window.exists)

\* C21 (amended): a scan call raises exactly when there is no foreground
\* window or reading the window's name or the bounds of the traversal root
\* fails; a failure of the search for the render surface or of a node of the
\* tree is absorbed and the call returns its list.
C21_RaisesIffWindowUnreadable ==
    scans_done # {} => (scan_raised # NoScanError <=> WindowUnreadable)

C21_Witness ==
    /\ "api" \in scans_done
    /\ scan_raised = NoScanError
    /\ window.name = "Google Chrome" /\ window.render = "raises"
    /\ ui_tree.broken # {}
    /\ Len(api_elements) >= 1

\* the proper ancestors of node i
RECURSIVE ProperAncestors(_, _)
ProperAncestors(parent, i) ==
    IF i <= 1 THEN {} ELSE {parent[i]} \cup ProperAncestors(parent, parent[i])

\* C25: of a tree with a node whose children cannot be listed or whose
\* properties cannot be read, the scan returns every qualifying node within
\* the depth limit except the unreadable node itself and the nodes below the
\* node that cannot list its children, in pre-order; siblings and other
\* subtrees are all there.
C25_OnlyFailingSubtreeSkipped ==
    ("api" \in scans_done /\ window = PlainWindow)
    => LET Emitted(n) ==
               /\ DepthOf(ui_tree.parent, n) <= configured_max_depth
               /\ Qualifies(n)
               /\ n \notin ui_tree.unreadable
               /\ ProperAncestors(ui_tree.parent, n) \cap ui_tree.broken = {}
           expected == SelectSeq([n \in 1..Len(ui_tree.nodes) |-> n], Emitted)
       IN  /\ scan_raised = NoScanError
           /\ Len(api_elements) = Len(expected)
           /\ \A k \in 1..Len(api_elements) : api_elements[k].name = expected[k]

\* a node fails to list its children, a later sibling of it is in the result
C25_Witness ==
    /\ "api" \in scans_done /\ window = PlainWindow
    /\ \E b \in ui_tree.broken, k \in 1..Len(api_elements) :
          /\ b > 1
          /\ api_elements[k].name > b
          /\ ui_tree.parent[api_elements[k].name] = ui_tree.parent[b]
          /\ \E c \in 1..Len(ui_tree.nodes) : ui_tree.parent[c] = b /\ Qualifies(c)

\* C26: after every scan call on a browser window, whether the search for the
\* render surface succeeds, times out or raises, the process-wide search
\* timeout has the value it had before the call.
C26_TimeoutRestored ==
    [][(scans_done' # scans_done /\ window.exists /\ IsBrowser(window.name))
         => search_timeout' = search_timeout]_vars

C26_Witness ==
    /\ scans_done # {}
    /\ window.name = "Google Chrome" /\ window.render = "raises"
    /\ search_timeout = RESTORED_SEARCH_TIMEOUT

\* C27 (as claimed): after every scan call, whether it returned or raised and
\* whether or not a render surface was found, the scanner's max_depth equals
\* the value it was constructed with.
C27_MaxDepthRestored ==
    scanner_config.max_depth = configured_max_depth

\* the sum of the absolute differences of the two files of the call
CallDiffSum ==
    SumAbsDiff(compare_call.disk[compare_call.current_path],
               compare_call.disk[compare_call.previous_path], 1)

\* the call has two frames to compare and the comparison does not raise
CallCompares ==
    /\ compare_call.previous_path # NonePath
    /\ compare_call.disk[compare_call.previous_path] # NoFrame
    /\ compare_call.disk[compare_call.current_path] # NoFrame
    /\ ~compare_call.cmp_fails

\* C22: _compare_screenshots returns True when there is no previous frame or
\* when the comparison fails; otherwise it returns True exactly when the mean
\* absolute difference of the channel values, as a percentage of 255, is
\* strictly above 2.0 (sum * 100 > 2 * 255 * size); equal frames give False.
C22_ChangedIffAboveThreshold ==
    compare_call.called
    => IF CallCompares
       THEN /\ compare_call.result
                  <=> (CallDiffSum * 100 > 2 * 255
                         * Len(compare_call.disk[compare_call.current_path]))
            /\ (compare_call.disk[compare_call.current_path]
                  = compare_call.disk[compare_call.previous_path]
                => ~compare_call.result)
       ELSE compare_call.result

\* two frames that differ by exactly 2.0 per cent were compared
C22_Witness ==
    /\ compare_call.called
    /\ CallCompares
    /\ CallDiffSum = 51
    /\ ~compare_call.result

\* the point the last pointer call aimed at, in screen coordinates
LastTarget ==
    IF desktop.scale
    THEN << IntDiv(desktop.x * controller.screen_width, controller.ai_image_width),
            IntDiv(desktop.y * controller.screen_height, controller.ai_image_height) >>
    ELSE << desktop.x, desktop.y >>

LastCallHasPosition ==
    \/ desktop.op \in {"move_mouse", "click_element"}
    \/ desktop.op = "scroll" /\ desktop.given = "both"

\* C24 (as claimed): after close_playwright has returned, from whatever
\* connection state, browser and page are None and the Playwright context is
\* stopped.
C24_ClosedAfterClose ==
    desktop.op = "close_playwright"
    => /\ controller.browser = NoConnection
       /\ controller.page = NoConnection
       /\ controller.playwright_context = NoConnection

\* C30: a move_mouse, click_element or positioned scroll whose target, after
\* scaling where asked for, is outside 0 <= x < screen_width and
\* 0 <= y < screen_height raises CoordinateOutOfBoundsError and never reaches
\* pyautogui.
C30_NoActuationOutOfBounds ==
    (/\ LastCallHasPosition
     /\ ~(/\ 0 <= LastTarget[1] /\ LastTarget[1] < controller.screen_width
          /\ 0 <= LastTarget[2] /\ LastTarget[2] < controller.screen_height))
    => /\ desktop.raised = "CoordinateOutOfBoundsError"
       /\ ~desktop.actuated

\* a scaled click on the right edge of the screen was refused
C30_Witness ==
    /\ desktop.op = "click_element"
    /\ desktop.scale
    /\ LastTarget[1] = controller.screen_width
    /\ desktop.x # LastTarget[1]
    /\ desktop.raised = "CoordinateOutOfBoundsError"
    /\ ~desktop.actuated

\* C28 (as claimed): in every pass that calls the oracle, the file handed to it
\* holds the frame captured in that pass, also when drawing or saving the
\* overlay failed; it is never the file an earlier pass left behind.
C28_OracleSeesThisPass ==
    pc = "decide" => disk = frame

\* C29: starting a run_task call leaves the history as it is, and every oracle
\* call is handed the history, of which the most recent HISTORY_WINDOW records
\* go into the prompt: records of an earlier call reach the oracle of a later
\* one.
C29_HistoryCarriedOver ==
    [][/\ (pc = "idle" /\ pc' # "idle") => history' = history
       /\ (oracle_calls' = oracle_calls + 1)
          => chat_history' = IF Len(history) <= 5 THEN history
                             ELSE SubSeq(history, Len(history) - 4, Len(history))]_vars

\* the oracle of the first pass of a run is handed the last records of a
\* history that earlier runs made longer than the window
C29_Witness ==
    /\ iteration = 1
    /\ oracle_calls = 1
    /\ Len(history) > HISTORY_WINDOW
    /\ Len(chat_history) = HISTORY_WINDOW
    /\ chat_history[1] = history[2]

\* the ids of the catalogue self.current_elements
CatalogueIds(elements) == { elements[i] : i \in 1..Len(elements) }

\* C23: a click by element id dispatched in a pass is resolved against the
\* catalogue scanned in that pass: an id that is not in it gets an error result
\* and no click, any id gets one when the catalogue is empty, whatever the
\* catalogue of the pass before held.
C23_ResolvedAgainstThisPass ==
    \A i \in 1..Len(execution_results) :
       issued_calls[i] \in IdCalls
       => /\ current_elements = << >>
             => execution_results[i] = "No UI elements were detected"
          /\ ElementId(issued_calls[i]) \notin CatalogueIds(current_elements)
             => execution_results[i] \in {"No UI elements were detected",
                                         "Element ID not found"}
          /\ ElementId(issued_calls[i]) \in CatalogueIds(current_elements)
             => execution_results[i] \in {"Left-clicked element", "Failed to execute"}

\* id 3 was in the catalogue of the pass before and is not in this pass's: the
\* click on it is refused
C23_Witness ==
    /\ 3 \in CatalogueIds(previous_elements)
    /\ current_elements # << >>
    /\ 3 \notin CatalogueIds(current_elements)
    /\ \E i \in 1..Len(execution_results) :
          /\ issued_calls[i] = "click_id_3"
          /\ execution_results[i] = "Element ID not found"

====
